---- MODULE Spec2Model ----
(***************************************************************************)
(* The job control plane of FFwebAPI: the task manager (task table,        *)
(* submission queue, dispatch loop, executors, cancellation, reaper) of    *)
(* task/manager.go together with the transcoder driver of ffmpeg/runner.go *)
(* and the mock drivers of task/manager_test.go, the command validator of  *)
(* ffmpeg/sanitize.go and the task and file handlers of api/handler.go.    *)
(*                                                                         *)
(* Goroutines are interleaved at the granularity of their reads and writes *)
(* of shared Task fields: the Task is shared by pointer and the code takes *)
(* no lock around them.                                                    *)
(***************************************************************************)
EXTENDS Integers, Sequences, FiniteSets, TLC

\* ------------------------------------------------------------------ bounds
MaxTasks == 2             \* tasks submitted in one run
MaxConcurrencyBound == 1  \* cfg.MaxConcurrency ranges over 0..MaxConcurrencyBound
MaxTime == 3              \* the clock runs 1..MaxTime
MaxDriverTasks == 1       \* tasks submitted in one run against the real Runner
MaxArgs == 3              \* tokens of an argument vector
MaxPathLen == 2           \* components of a requested file name
IntBits == 4              \* width of the integers of the size checks (int64 in the code)
MaxQueue == 1             \* capacity of the task queue in the runs that fill it

\* --------------------------------------------------------------- constants
QueueCap == 100           \* make(chan *Task, 100)
OutputLocalLifetime == 1  \* testConfig: OutputLocalLifetime = 1 * time.Hour (a tick is an hour)
TestMaxConcurrency == 1   \* testConfig: MaxConcurrency = 1
ThrottleCPU == 50         \* THROTTLE_CPU default 50.0 (percent of idle CPU)
ThrottleFreeMem == 200    \* THROTTLE_FREEMEM default "200MB" (in megabytes)
ThrottleFreeDisk == 200   \* THROTTLE_FREEDISK default "200MB" (in megabytes)

VARIABLES
    maxConcurrency, \* cfg.MaxConcurrency
    submitLimit,    \* how many tasks the clients submit in this run
    runner,         \* which FFmpegRunner was injected into NewManager
    queueCap,       \* capacity of Manager.taskQueue
    tasks,          \* Manager.tasks: id -> Task (the shared *Task)
    taskQueue,      \* Manager.taskQueue
    sem,            \* number of tokens in Manager.concurrencySem
    workerPc,       \* position of workerLoop
    workerTask,     \* the task workerLoop popped and is launching
    exec,           \* per task: position and locals of its processTask goroutine
    ctx,            \* per task: state of taskCtx
    parentDone,     \* the context handed to Start is done
    cleanupPc,      \* position of cleanupLoop
    files,          \* paths that exist on disk
    now,            \* the clock
    cancelPc,       \* position of the goroutine calling Cancel
    cancelId,       \* its argument
    cancelRet,      \* what the last finished Cancel call saw and returned
    runInvoked,     \* history: ids for which runner.Run was invoked
    queuedCancels,  \* history: ids a Cancel call found queued, set canceled, returned nil
    reaped,         \* history: ids whose output file a sweep removed
    call            \* the request a client goroutine is in: operation, argument, answer

vars == <<maxConcurrency, submitLimit, runner, queueCap, tasks, taskQueue, sem, workerPc, workerTask,
          exec, ctx, parentDone, cleanupPc, files, now, cancelPc, cancelId,
          cancelRet, runInvoked, queuedCancels, reaped, call>>

\* everything but the request being served
managerVars == <<maxConcurrency, submitLimit, runner, queueCap, tasks, taskQueue, sem, workerPc,
                 workerTask, exec, ctx, parentDone, cleanupPc, files, now, cancelPc,
                 cancelId, cancelRet, runInvoked, queuedCancels, reaped>>

\* ------------------------------------------------------------- task.Status
StatusQueued == "queued"
StatusProcessing == "processing"
StatusCompleted == "completed"
StatusFailed == "failed"
StatusCanceled == "canceled"

Terminal == {StatusCompleted, StatusFailed, StatusCanceled}

\* ------------------------------------------------------------------ errors
\* A Go error is modelled by its chain of wrapped layers, outermost first;
\* the nil error is the empty chain.  Error() joins the layers with ": ".
NilErr == << >>
ContextCanceled == <<"context canceled">>
ContextDeadlineExceeded == <<"context deadline exceeded">>

\* fmt.Errorf("<msg>: %w", err)
Wrap(msg, err) == <<msg>> \o err

\* a comparison that forgets context.Canceled
IsCtxErr_DeadlineOnly(err) == err = ContextDeadlineExceeded

\* err == context.Canceled || err == context.DeadlineExceeded (identity, not errors.Is)
IsCtxErr(err) == err = ContextCanceled \/ err = ContextDeadlineExceeded

\* ------------------------------------------------------------------- paths
\* A path is the sequence of its components, counted from the root; "" is
\* the empty sequence.  A separator with nothing before or after it leaves an
\* empty component: "a/" is <<a, Empty>>, "/" is <<Empty, Empty>>.
FileName(kind, id) == [kind |-> kind, id |-> id]
Dot == FileName(".", 0)
DotDot == FileName("..", 0)
Empty == FileName("", 0)

\* os.MkdirTemp("", "ffwebapi_*"): a directory in the system's temp directory
TempDir == <<FileName("tmp", 0), FileName("ffwebapi_", 0)>>
NoPath == << >>

\* filepath.Clean: drops empty and "." components, lets ".." eat the
\* component before it
RECURSIVE Clean(_, _)
Clean(p, out) ==
    IF p = << >> THEN out
    ELSE IF Head(p) \in {Empty, Dot} THEN Clean(Tail(p), out)
    ELSE IF Head(p) = DotDot
         THEN Clean(Tail(p), IF out = << >> THEN out ELSE SubSeq(out, 1, Len(out) - 1))
         ELSE Clean(Tail(p), Append(out, Head(p)))

\* filepath.Join(dir, name)
Join(dir, name) == Clean(dir \o name, << >>)

\* p without its trailing separators
RECURSIVE StripTrailing(_)
StripTrailing(p) ==
    IF p # << >> /\ p[Len(p)] = Empty THEN StripTrailing(SubSeq(p, 1, Len(p) - 1)) ELSE p

\* filepath.Base(p): "." for "", "/" for a path of separators only, else
\* the last element, trailing separators removed
Base(p) ==
    IF p = << >> THEN <<Dot>>
    ELSE IF StripTrailing(p) = << >> THEN <<Empty, Empty>>
    ELSE <<StripTrailing(p)[Len(StripTrailing(p))]>>

\* os.CreateTemp(r.tempDir, "<id>_input_*")
InputTmp(id) == Join(TempDir, <<FileName("input", id)>>)

\* filepath.Join(r.tempDir, "<id>_output.<ext>") for an extension that is one
\* plain word
OutputFile(id) == Join(TempDir, <<FileName("output", id)>>)

\* fmt.Sprintf("%s_output.%s", t.ID, t.OutputExt) as a path: the text of an
\* extension is the sequence of the pieces its separators cut it into; the
\* first piece ends the component "<id>_output.<piece>", the pieces after it
\* are components of their own
OutputName(id, ext) ==
    IF ext = << >> THEN <<FileName("output", id)>>
    ELSE <<FileName("output", id)>> \o Tail(ext)

\* ------------------------------------------------------------------ inputs
MockRunners == {"mockSuccess", "mockFail", "mockBlocking"}
Runners == {"Runner"} \cup MockRunners

\* Task.Command, Task.InputMedia and Task.OutputExt are written once by Submit
\* and read once by Run.  The model draws what they make Run do (how the
\* command splits, how the input stages) at the step of Run that reads them.
SplitResults == {"ok", "syntax", "noplaceholder"}
InputMedias == {"url", "data", "local"}
Ids == 1..MaxTasks

ZeroTime == 0

\* time.Since(t): the zero time.Time lies centuries back, the difference saturates
Since(t) == IF t = ZeroTime THEN OutputLocalLifetime + MaxTime + 1 ELSE now - t

\* the extension of the tests' requests, "mp4", as the components it adds
\* to the name of the output file
DefaultExt == <<FileName("mp4", 0)>>

\* a download URL: the text of the base, the route, and the file name; ""
\* has no part
NoURL == [base |-> << >>, route |-> "", filename |-> NoPath]

\* ------------------------------------------------------------- construction
\* a Task literal born with the wrong status
NewTask_Processing ==
    [status |-> StatusProcessing,
     inputPath |-> NoPath, outputPath |-> NoPath, error |-> NilErr,
     ffmpegOutput |-> "", createdAt |-> now, startedAt |-> ZeroTime,
     completedAt |-> ZeroTime, cancelFunc |-> FALSE,
     outputExt |-> DefaultExt, downloadURL |-> NoURL]

\* Submit's &Task{...}
NewTask ==
    [status |-> StatusQueued,
     inputPath |-> NoPath, outputPath |-> NoPath, error |-> NilErr,
     ffmpegOutput |-> "", createdAt |-> now, startedAt |-> ZeroTime,
     completedAt |-> ZeroTime, cancelFunc |-> FALSE,
     outputExt |-> DefaultExt, downloadURL |-> NoURL]

IdleExec == [pc |-> "none", log |-> "", err |-> NilErr]

\* no request is being served
NoCall == [op |-> "none"]

\* NewManager followed by Start: empty table, empty queue, free semaphore,
\* both loops running.
NewManager(concurrencies, runners, limit, cap) ==
    /\ maxConcurrency \in concurrencies
    /\ submitLimit = limit
    /\ runner \in runners
    /\ queueCap = cap
    /\ tasks = [i \in {} |-> NewTask]
    /\ taskQueue = << >>
    /\ sem = 0
    /\ workerPc = "select"
    /\ workerTask = 0
    /\ exec = [i \in Ids |-> IdleExec]
    /\ ctx = [i \in Ids |-> "none"]
    /\ parentDone = FALSE
    /\ cleanupPc = "select"
    /\ files = {}
    /\ now = 1
    /\ cancelPc = "idle"
    /\ cancelId = 0
    /\ cancelRet = [id |-> 0, observed |-> "", err |-> <<>>]
    /\ runInvoked = {}
    /\ queuedCancels = {}
    /\ reaped = {}

\* taskQueue: make(chan *Task, 100)
StartManager(concurrencies, runners, limit) ==
    NewManager(concurrencies, runners, limit, QueueCap)

\* the process is up and no request has arrived
Start(concurrencies, runners, limit) ==
    /\ StartManager(concurrencies, runners, limit)
    /\ call = NoCall

\* ------------------------------------------------------------------ Submit
\* The id is fresh (shortuuid + epoch): the next unused number.
NextId == Cardinality(DOMAIN tasks) + 1

\* the callers of Submit that wait in the send on the full channel: their
\* task is stored, and is neither in the channel nor received yet
BlockedSubmits ==
    {id \in DOMAIN tasks :
        /\ \A k \in DOMAIN taskQueue : taskQueue[k] # id
        /\ workerTask # id
        /\ exec[id].pc = "none"}

\* the body of Manager.Submit: m.tasks.Store(t.ID, t) ; m.taskQueue <- t.
\* The send completes at once while the channel has room; on a full channel
\* the caller waits in it with the task already stored.
SubmitTask(outputExt) ==
    /\ NextId <= submitLimit
    /\ tasks' = tasks @@ (NextId :> [NewTask EXCEPT !.outputExt = outputExt])
    /\ taskQueue' = IF Len(taskQueue) < queueCap
                    THEN Append(taskQueue, NextId) ELSE taskQueue
    /\ UNCHANGED <<maxConcurrency, submitLimit, runner, queueCap, sem, workerPc, workerTask, exec, ctx,
                   parentDone, cleanupPc, files, now, cancelPc, cancelId,
                   cancelRet, runInvoked, queuedCancels, reaped>>

\* a receive that leaves the waiting callers waiting
Received_NoHandOff(q) == Tail(q)

\* a receive from the channel q: the head leaves, and the send of the caller
\* that has waited longest (the lowest id) completes in the same step
Received(q) ==
    IF BlockedSubmits = {} THEN Tail(q)
    ELSE Append(Tail(q), CHOOSE id \in BlockedSubmits :
                             \A other \in BlockedSubmits : id <= other)

\* tm.Submit(...) called directly, as the tests do
Submit == SubmitTask(DefaultExt) /\ UNCHANGED call

\* Get: m.tasks.Load
Get(id) == IF id \in DOMAIN tasks THEN [found |-> TRUE, id |-> id]
                                  ELSE [found |-> FALSE, id |-> 0]

\* -------------------------------------------------------------- workerLoop
\* a receive that hands out the newest element of the channel
WorkerPop_Lifo ==
    /\ workerPc = "select"
    /\ taskQueue # << >>
    /\ workerTask' = taskQueue[Len(taskQueue)]
    /\ taskQueue' = SubSeq(taskQueue, 1, Len(taskQueue) - 1)
    /\ workerPc' = "acquire"
    /\ UNCHANGED <<call, maxConcurrency, submitLimit, runner, queueCap, tasks, sem, exec, ctx, parentDone,
                   cleanupPc, files, now, cancelPc, cancelId, cancelRet,
                   runInvoked, queuedCancels, reaped>>

\* case task := <-m.taskQueue
WorkerPop ==
    /\ workerPc = "select"
    /\ taskQueue # << >>
    /\ workerTask' = Head(taskQueue)
    /\ taskQueue' = Received(taskQueue)
    /\ workerPc' = "acquire"
    /\ UNCHANGED <<call, maxConcurrency, submitLimit, runner, queueCap, tasks, sem, exec, ctx, parentDone,
                   cleanupPc, files, now, cancelPc, cancelId, cancelRet,
                   runInvoked, queuedCancels, reaped>>

\* a send that is let through with the semaphore already full
SlotFree_OffByOne == sem <= maxConcurrency

\* the send on concurrencySem can proceed
SlotFree == sem < maxConcurrency

\* m.concurrencySem <- struct{}{} ; go func(t) {...}(task)
WorkerLaunch ==
    /\ workerPc = "acquire"
    /\ SlotFree
    /\ sem' = sem + 1
    /\ exec' = [exec EXCEPT ![workerTask].pc = "start"]
    /\ workerPc' = "select"
    /\ workerTask' = 0
    /\ UNCHANGED <<call, maxConcurrency, submitLimit, runner, queueCap, tasks, taskQueue, ctx, parentDone,
                   cleanupPc, files, now, cancelPc, cancelId, cancelRet,
                   runInvoked, queuedCancels, reaped>>

\* case <-ctx.Done(): return
WorkerExit ==
    /\ workerPc = "select"
    /\ parentDone
    /\ workerPc' = "exited"
    /\ UNCHANGED <<call, maxConcurrency, submitLimit, runner, queueCap, tasks, taskQueue, sem, workerTask,
                   exec, ctx, parentDone, cleanupPc, files, now, cancelPc,
                   cancelId, cancelRet, runInvoked, queuedCancels, reaped>>

\* ------------------------------------------------------------- processTask
\* context.WithTimeout(parentCtx, ...): born canceled under a done parent
NewCtx == IF parentDone THEN "canceled" ELSE "live"

\* a goroutine that ends without receiving from the semaphore
ExecutorReturns_NoRelease(id) ==
    /\ ctx' = [ctx EXCEPT ![id] = IF @ = "live" THEN "canceled" ELSE @]
    /\ sem' = sem

\* defer cancel() ; defer func() { <-m.concurrencySem }()
ExecutorReturns(id) ==
    /\ ctx' = [ctx EXCEPT ![id] = IF @ = "live" THEN "canceled" ELSE @]
    /\ sem' = sem - 1

\* pc the goroutine is at once Run has been entered
DriverEntry == IF runner = "Runner" THEN "gate" ELSE "mock"

\* taskCtx, cancel := ... ; t.cancelFunc = cancel ; if t.Status == StatusCanceled { return }
ProcessTaskStart(id) ==
    /\ exec[id].pc = "start"
    /\ IF tasks[id].status = StatusCanceled
       THEN /\ tasks' = [tasks EXCEPT ![id].cancelFunc = TRUE]
            /\ exec' = [exec EXCEPT ![id].pc = "done"]
            /\ ctx' = [ctx EXCEPT ![id] = "canceled"]
            /\ sem' = sem - 1
       ELSE /\ tasks' = [tasks EXCEPT ![id].cancelFunc = TRUE]
            /\ exec' = [exec EXCEPT ![id].pc = "setproc"]
            /\ ctx' = [ctx EXCEPT ![id] = NewCtx]
            /\ sem' = sem
    /\ UNCHANGED <<call, maxConcurrency, submitLimit, runner, queueCap, taskQueue, workerPc, workerTask,
                   parentDone, cleanupPc, files, now, cancelPc, cancelId,
                   cancelRet, runInvoked, queuedCancels, reaped>>

\* t.Status = StatusProcessing ; t.StartedAt = time.Now() ; Store ; m.runner.Run(taskCtx, t)
ProcessTaskBegin(id) ==
    /\ exec[id].pc = "setproc"
    /\ tasks' = [tasks EXCEPT ![id].status = StatusProcessing,
                              ![id].startedAt = now]
    /\ exec' = [exec EXCEPT ![id].pc = DriverEntry]
    /\ runInvoked' = runInvoked \cup {id}
    /\ UNCHANGED <<call, maxConcurrency, submitLimit, runner, queueCap, taskQueue, sem, workerPc, workerTask,
                   ctx, parentDone, cleanupPc, files, now, cancelPc, cancelId,
                   cancelRet, queuedCancels, reaped>>

\* a classification that drops the driver's message
Outcome_NoMessage(err) ==
    IF err # NilErr
    THEN IF IsCtxErr(err)
         THEN [status |-> StatusCanceled, error |-> <<"Task was canceled or timed out">>]
         ELSE [status |-> StatusFailed, error |-> <<"task failed">>]
    ELSE [status |-> StatusCompleted, error |-> NilErr]

\* the status and error processTask derives from Run's error
Outcome(err) ==
    IF err # NilErr
    THEN IF IsCtxErr(err)
         THEN [status |-> StatusCanceled, error |-> <<"Task was canceled or timed out">>]
         ELSE [status |-> StatusFailed, error |-> err]
    ELSE [status |-> StatusCompleted, error |-> NilErr]

\* t.FFMpegOutput = outputLog ; if err != nil {...} else {...}
\* (a failed or canceled task gets its Error; a completed one keeps what it has)
ProcessTaskClassify(id) ==
    LET o == Outcome(exec[id].err) IN
    /\ exec[id].pc = "classify"
    /\ tasks' = [tasks EXCEPT ![id].ffmpegOutput = exec[id].log,
                              ![id].status = o.status,
                              ![id].error = IF exec[id].err # NilErr THEN o.error ELSE @]
    /\ exec' = [exec EXCEPT ![id].pc = "stamp"]
    /\ UNCHANGED <<call, maxConcurrency, submitLimit, runner, queueCap, taskQueue, sem, workerPc, workerTask,
                   ctx, parentDone, cleanupPc, files, now, cancelPc, cancelId,
                   cancelRet, runInvoked, queuedCancels, reaped>>

\* t.CompletedAt = time.Now() ; Store ; deferred cancel() ; slot released
ProcessTaskFinish(id) ==
    /\ exec[id].pc = "stamp"
    /\ tasks' = [tasks EXCEPT ![id].completedAt = now]
    /\ exec' = [exec EXCEPT ![id].pc = "done"]
    /\ ExecutorReturns(id)
    /\ UNCHANGED <<call, maxConcurrency, submitLimit, runner, queueCap, taskQueue, workerPc, workerTask,
                   parentDone, cleanupPc, files, now, cancelPc, cancelId,
                   cancelRet, runInvoked, queuedCancels, reaped>>

\* the per-task deadline (FFTimeout) expires
Timeout(id) ==
    /\ ctx[id] = "live"
    /\ ctx' = [ctx EXCEPT ![id] = "deadline"]
    /\ UNCHANGED <<call, maxConcurrency, submitLimit, runner, queueCap, tasks, taskQueue, sem, workerPc,
                   workerTask, exec, parentDone, cleanupPc, files, now, cancelPc,
                   cancelId, cancelRet, runInvoked, queuedCancels, reaped>>

\* ctx.Err()
CtxErr(id) == IF ctx[id] = "deadline" THEN ContextDeadlineExceeded ELSE ContextCanceled

CtxDone(id) == ctx[id] \in {"canceled", "deadline"}

\* ---------------------------------------------------------- mock drivers
\* Run returns (log, err): record it and remove the goroutine to classification
Returned(id, log, err) ==
    exec' = [exec EXCEPT ![id] = [pc |-> "classify", log |-> log, err |-> err]]

\* mockRunner.Run of the tests: default/"success log", "ffmpeg failed",
\* and the one that blocks on <-ctx.Done() and returns ctx.Err()
MockRun(id) ==
    /\ exec[id].pc = "mock"
    /\ CASE runner = "mockSuccess" -> Returned(id, "success log", NilErr)
         [] runner = "mockFail" -> Returned(id, "error log", <<"ffmpeg failed">>)
         [] runner = "mockBlocking" ->
                /\ CtxDone(id)
                /\ Returned(id, "canceled output", CtxErr(id))
    /\ UNCHANGED <<call, maxConcurrency, submitLimit, runner, queueCap, tasks, taskQueue, sem, workerPc,
                   workerTask, ctx, parentDone, cleanupPc, files, now, cancelPc,
                   cancelId, cancelRet, runInvoked, queuedCancels, reaped>>

\* ------------------------------------------------------------- Runner.Run
\* A reading of one signal of the host: the sampling call failed (err), or
\* it delivered values.  cpu.Percent delivers a slice p, possibly empty;
\* memory and disk deliver a number of megabytes.
CpuSamples ==
    {[err |-> TRUE, p |-> << >>], [err |-> FALSE, p |-> << >>]}
        \cup {[err |-> FALSE, p |-> <<v>>] :
                 v \in {100 - ThrottleCPU - 1, 100 - ThrottleCPU,
                        100 - ThrottleCPU + 1}}

MemSamples ==
    {[err |-> TRUE, available |-> 0]}
        \cup {[err |-> FALSE, available |-> v] :
                 v \in {ThrottleFreeMem - 1, ThrottleFreeMem}}

DiskSamples ==
    {[err |-> TRUE, free |-> 0]}
        \cup {[err |-> FALSE, free |-> v] :
                 v \in {ThrottleFreeDisk - 1, ThrottleFreeDisk}}

Samples == [cpu : CpuSamples, mem : MemSamples, disk : DiskSamples]

\* mutant: a failed CPU sampling refuses the job
CpuBreach_OnError(c) ==
    c.err \/ (Len(c.p) > 0 /\ c.p[1] > 100 - ThrottleCPU)

\* err == nil && len(p) > 0 && p[0] > (100.0 - r.cfg.ThrottleCPU)
CpuBreach(c) ==
    ~c.err /\ Len(c.p) > 0 /\ c.p[1] > 100 - ThrottleCPU

\* checkResources: CPU, then memory, then disk; the first breach is the error
CheckResources(s) ==
    IF CpuBreach(s.cpu) THEN <<"not enough idle CPU">>
    ELSE IF ~s.mem.err /\ s.mem.available < ThrottleFreeMem
         THEN <<"not enough free memory">>
    ELSE IF ~s.disk.err /\ s.disk.free < ThrottleFreeDisk
         THEN <<"not enough free disk space">>
    ELSE NilErr

\* 1. if err := r.checkResources(); err != nil { return "", wrapped }
GateStep(id, s) ==
    /\ exec[id].pc = "gate"
    /\ IF CheckResources(s) = NilErr
       THEN exec' = [exec EXCEPT ![id].pc = "stage"]
       ELSE Returned(id, "", Wrap("insufficient system resources",
                                  CheckResources(s)))
    /\ UNCHANGED <<maxConcurrency, submitLimit, runner, queueCap, tasks, taskQueue, sem, workerPc,
                   workerTask, ctx, parentDone, cleanupPc, files, now, cancelPc,
                   cancelId, cancelRet, runInvoked, queuedCancels, reaped>>

\* the gate under whatever the host reads at that moment
RunGate(id) ==
    /\ \E s \in Samples : GateStep(id, s)
    /\ UNCHANGED call

\* the gate on a host whose readings are call.sample
CallCheckResources(id) ==
    /\ call.op = "checkResources"
    /\ GateStep(id, call.sample)
    /\ call' = [call EXCEPT !.returned = TRUE,
                            !.err = CheckResources(call.sample)]

\* what prepareInput can end with, per kind of inputMedia, after os.CreateTemp
StageResults(id, inputMedia) ==
    CASE inputMedia = "url" ->
            {[ok |-> TRUE, err |-> NilErr],
             [ok |-> FALSE, err |-> <<"failed to download file, status">>],
             [ok |-> FALSE, err |-> <<"input file size exceeds limit">>]}
            \cup (IF CtxDone(id)
                  THEN {[ok |-> FALSE, err |-> Wrap("Get", CtxErr(id))]}
                  ELSE {})
      [] inputMedia = "data" ->
            {[ok |-> FALSE, err |-> <<"data URI inputs are not yet supported">>]}
      [] OTHER ->
            {[ok |-> TRUE, err |-> NilErr],
             [ok |-> FALSE, err |-> <<"could not open local input file">>],
             [ok |-> FALSE, err |-> <<"input file size exceeds limit">>]}

\* 2. prepareInput: os.CreateTemp fails, or the temp file is created and the
\* input staged into it; on error Run returns before the cleanup is
\* deferred; on success t.InputPath is recorded
RunStage(id) ==
    /\ exec[id].pc = "stage"
    /\ \/ /\ Returned(id, "", Wrap("failed to prepare input", <<"open: no space left on device">>))
          /\ UNCHANGED <<tasks, files>>
       \/ \E m \in InputMedias : \E r \in StageResults(id, m) :
             /\ files' = files \cup {InputTmp(id)}
             /\ IF r.ok
                THEN /\ tasks' = [tasks EXCEPT ![id].inputPath = InputTmp(id)]
                     /\ exec' = [exec EXCEPT ![id].pc = "prepare"]
                ELSE /\ tasks' = tasks
                     /\ Returned(id, "", Wrap("failed to prepare input", r.err))
    /\ UNCHANGED <<call, maxConcurrency, submitLimit, runner, queueCap, taskQueue, sem, workerPc, workerTask,
                   ctx, parentDone, cleanupPc, now, cancelPc, cancelId,
                   cancelRet, runInvoked, queuedCancels, reaped>>

\* the deferred cleanupInput(): tmpFile.Close() ; os.Remove(tmpFile.Name())
CleanupInput(id, fs) == fs \ {InputTmp(id)}

\* 3./4. SplitCommand, placeholder substitution, t.OutputPath = outputPath
RunPrepare(id) ==
    /\ exec[id].pc = "prepare"
    /\ \E split \in SplitResults :
       CASE split = "syntax" ->
              /\ Returned(id, "", Wrap("invalid command syntax", <<"EOF found">>))
              /\ files' = CleanupInput(id, files)
              /\ tasks' = tasks
         [] split = "noplaceholder" ->
              /\ Returned(id, "", <<"could not find placeholder in command">>)
              /\ files' = CleanupInput(id, files)
              /\ tasks' = tasks
         [] OTHER ->
              /\ exec' = [exec EXCEPT ![id].pc = "exec"]
              /\ files' = files
              /\ tasks' = [tasks EXCEPT ![id].outputPath =
                              Join(TempDir, OutputName(id, tasks[id].outputExt))]
    /\ UNCHANGED <<call, maxConcurrency, submitLimit, runner, queueCap, taskQueue, sem, workerPc, workerTask,
                   ctx, parentDone, cleanupPc, now, cancelPc, cancelId,
                   cancelRet, runInvoked, queuedCancels, reaped>>

\* how cmd.Run() can end: exit 0, a non-zero exit, and under a done context
\* the child killed or never started (Start returns ctx.Err())
ExecResults(id) ==
    {[ok |-> TRUE, err |-> NilErr], [ok |-> FALSE, err |-> <<"exit status 1">>]}
    \cup (IF CtxDone(id)
          THEN {[ok |-> FALSE, err |-> <<"signal: killed">>],
                [ok |-> FALSE, err |-> CtxErr(id)]}
          ELSE {})

\* 5. cmd.Run() ; on error os.Remove(outputPath), t.OutputPath = "" ;
\* the deferred cleanupInput runs as Run returns
RunExec(id) ==
    /\ exec[id].pc = "exec"
    /\ \E r \in ExecResults(id) :
          IF r.ok
          THEN /\ files' = CleanupInput(id, files \cup {tasks[id].outputPath})
               /\ tasks' = tasks
               /\ Returned(id, "ffmpeg log", NilErr)
          ELSE /\ files' = CleanupInput(id, files \ {tasks[id].outputPath})
               /\ tasks' = [tasks EXCEPT ![id].outputPath = NoPath]
               /\ Returned(id, "ffmpeg log", Wrap("ffmpeg execution failed", r.err))
    /\ UNCHANGED <<call, maxConcurrency, submitLimit, runner, queueCap, taskQueue, sem, workerPc, workerTask,
                   ctx, parentDone, cleanupPc, now, cancelPc, cancelId,
                   cancelRet, runInvoked, queuedCancels, reaped>>

\* ------------------------------------------------------------------ Cancel
\* a case list that forgets StatusCanceled
CancelRefused_NoCanceled(status) == status \in {StatusCompleted, StatusFailed}

\* case StatusCompleted, StatusFailed, StatusCanceled:
CancelRefused(status) == status \in Terminal

NoRet == [id |-> 0, observed |-> "", err |-> NilErr]

\* m.tasks.Load and the switch on task.Status.  The not-found, terminal and
\* processing branches return here; the queued branch has read the status
\* and will write.
CancelCall(id) ==
    /\ cancelPc = "idle"
    /\ IF id \notin DOMAIN tasks
       THEN /\ cancelRet' = [id |-> id, observed |-> "", err |-> <<"task not found">>]
            /\ cancelPc' = "returned"
            /\ UNCHANGED <<cancelId, ctx>>
       ELSE CASE CancelRefused(tasks[id].status) ->
                   /\ cancelRet' = [id |-> id, observed |-> tasks[id].status,
                                    err |-> <<"cannot cancel task in state", tasks[id].status>>]
                   /\ cancelPc' = "returned"
                   /\ UNCHANGED <<cancelId, ctx>>
              [] tasks[id].status = StatusQueued ->
                   /\ cancelPc' = "queued"
                   /\ cancelId' = id
                   /\ UNCHANGED <<cancelRet, ctx>>
              [] tasks[id].status = StatusProcessing ->
                   /\ cancelPc' = "returned"
                   /\ IF tasks[id].cancelFunc
                      THEN /\ ctx' = [ctx EXCEPT ![id] = IF @ = "live" THEN "canceled" ELSE @]
                           /\ cancelRet' = [id |-> id, observed |-> StatusProcessing,
                                            err |-> NilErr]
                           /\ UNCHANGED cancelId
                      ELSE /\ cancelRet' = [id |-> id, observed |-> StatusProcessing,
                                            err |-> <<"task is processing but has no cancellation handle">>]
                           /\ UNCHANGED <<cancelId, ctx>>
              [] OTHER ->
                   /\ cancelPc' = "returned"
                   /\ cancelRet' = [id |-> id, observed |-> tasks[id].status,
                                    err |-> NilErr]
                   /\ UNCHANGED <<cancelId, ctx>>
    /\ UNCHANGED <<call, maxConcurrency, submitLimit, runner, queueCap, tasks, taskQueue, sem, workerPc,
                   workerTask, exec, parentDone, cleanupPc, files, now,
                   runInvoked, queuedCancels, reaped>>

\* case StatusQueued: task.Status = StatusCanceled ; task.Error = ... ; Store ; return nil
CancelQueued ==
    /\ cancelPc = "queued"
    /\ tasks' = [tasks EXCEPT ![cancelId].status = StatusCanceled,
                              ![cancelId].error = <<"Canceled by user while in queue">>]
    /\ cancelRet' = [id |-> cancelId, observed |-> StatusQueued, err |-> NilErr]
    /\ queuedCancels' = queuedCancels \cup {cancelId}
    /\ cancelPc' = "returned"
    /\ cancelId' = 0
    /\ UNCHANGED <<call, maxConcurrency, submitLimit, runner, queueCap, taskQueue, sem, workerPc, workerTask,
                   exec, ctx, parentDone, cleanupPc, files, now, runInvoked, reaped>>

\* handleCancelTask answers 400 or 200 with what Cancel returned
CancelRespond ==
    /\ cancelPc = "returned"
    /\ cancelPc' = "idle"
    /\ cancelRet' = NoRet
    /\ UNCHANGED <<call, maxConcurrency, submitLimit, runner, queueCap, tasks, taskQueue, sem, workerPc,
                   workerTask, exec, ctx, parentDone, cleanupPc, files, now,
                   cancelId, runInvoked, queuedCancels, reaped>>

\* ------------------------------------------------------------- GetFilePath
\* os.Stat(p) finds a file, or one of the directories above the outputs
Exists(p) == p \in files \/ p \in {TempDir, SubSeq(TempDir, 1, Len(TempDir) - 1)}

GetFilePath(filename) ==
    IF Base(filename) # filename
    THEN [path |-> NoPath, err |-> <<"invalid filename">>]
    ELSE IF ~Exists(Join(TempDir, filename))
         THEN [path |-> NoPath, err |-> <<"file not found">>]
         ELSE [path |-> Join(TempDir, filename), err |-> NilErr]

\* ---------------------------------------------------------- ffmpeg/sanitize
\* A string is the sequence of its lexemes.  A lexeme is one character, a
\* plain word of harmless characters, or the run "${INPUT_MEDIA}", which
\* occurs in a string only as this one lexeme.
InputMediaPlaceholder == <<"${INPUT_MEDIA}">>

\* a list of characters that forgets the dollar sign
DisallowedChars_NoDollar == {"|", "&", ";", "BACKTICK", "(", ")", "<", ">"}

\* the second argument of strings.ContainsAny(arg, ...): | & ; backtick $ ( ) < >
DisallowedChars == {"|", "&", ";", "BACKTICK", "$", "(", ")", "<", ">"}

\* the characters a lexeme consists of
CharsOf(lexeme) ==
    IF lexeme = "${INPUT_MEDIA}" THEN {"$", "{", "INPUT_MEDIA", "}"} ELSE {lexeme}

\* strings.ContainsAny(s, chars)
ContainsAny(s, chars) == \E i \in 1..Len(s) : CharsOf(s[i]) \cap chars # {}

\* the nil error of SanitizeAndValidateArgs
SanitizeOk == [msg |-> "", arg |-> << >>]

\* for _, arg := range args {...} from the i-th token on, then if !hasInput {...}
RECURSIVE SanitizeLoop(_, _, _)
SanitizeLoop(args, i, hasInput) ==
    IF i > Len(args)
    THEN IF ~hasInput
         THEN [msg |-> "command must include the input placeholder",
               arg |-> InputMediaPlaceholder]
         ELSE SanitizeOk
    ELSE IF args[i] = InputMediaPlaceholder
         THEN SanitizeLoop(args, i + 1, TRUE)
         ELSE IF ContainsAny(args[i], DisallowedChars)
              THEN [msg |-> "disallowed character found in argument", arg |-> args[i]]
              ELSE SanitizeLoop(args, i + 1, hasInput)

SanitizeAndValidateArgs(args) == SanitizeLoop(args, 1, FALSE)

\* tokens to validate: the placeholder alone and with text or a
\* metacharacter glued to it, a word ending in each disallowed character, a
\* flag, a file name, the empty token
Affixes == {<< >>, <<"a">>, <<";">>}
SampleTokens ==
    {pre \o InputMediaPlaceholder \o suf : pre \in Affixes, suf \in {<< >>, <<"a">>}}
    \cup {<<"a", c>> : c \in DisallowedChars}
    \cup {<<"-i">>, <<"x.mp4">>, << >>}
Argvs == UNION {[1..n -> SampleTokens] : n \in 0..MaxArgs}

\* err := SanitizeAndValidateArgs(args), called as the tests call it
CallSanitize ==
    /\ call.op = "SanitizeAndValidateArgs"
    /\ ~call.returned
    /\ call' = [call EXCEPT !.returned = TRUE, !.err = SanitizeAndValidateArgs(call.args)]
    /\ UNCHANGED managerVars

\* shlex.Split over the lexemes: unquoted spaces separate the tokens, double
\* quotes group, an unclosed quote is an error.  cur is the token being
\* read, inToken says that one was begun.
RECURSIVE SplitLoop(_, _, _, _, _, _)
SplitLoop(s, i, cur, inToken, inQuote, out) ==
    IF i > Len(s)
    THEN IF inQuote
         THEN [args |-> << >>,
               err |-> Wrap("invalid command syntax",
                            <<"EOF found when expecting closing quote">>)]
         ELSE [args |-> IF inToken THEN Append(out, cur) ELSE out, err |-> NilErr]
    ELSE IF s[i] = "\""
         THEN SplitLoop(s, i + 1, cur, TRUE, ~inQuote, out)
         ELSE IF s[i] = " " /\ ~inQuote
              THEN IF inToken
                   THEN SplitLoop(s, i + 1, << >>, FALSE, FALSE, Append(out, cur))
                   ELSE SplitLoop(s, i + 1, cur, FALSE, FALSE, out)
              ELSE SplitLoop(s, i + 1, Append(cur, s[i]), TRUE, inQuote, out)

\* args, err := shlex.Split(command) ; wrapped on error
SplitCommand(command) == SplitLoop(command, 1, << >>, FALSE, FALSE, << >>)

\* ------------------------------------------------------------- api/handler
\* command strings a client posts: the test's, one cut by a semicolon, one
\* without the sentinel, one with an unclosed quote, quoted ones, none
SampleCommands ==
    {<<"-i", " ", "${INPUT_MEDIA}", " ", "x.mp4">>,
     <<"-i", " ", "${INPUT_MEDIA}", ";", " ", "ls">>,
     <<"-i", " ", "x.mp4">>,
     <<"-i", " ", "\"", "${INPUT_MEDIA}">>,
     <<"\"", "${INPUT_MEDIA}", "\"">>,
     <<"\"", "-i", " ", "${INPUT_MEDIA}", "\"">>,
     <<"-i", " ", "${INPUT_MEDIA}", " ", "\"", "a", ";", "\"">>,
     << >>}

\* TaskRequest as decoded from the JSON body
\* extensions a client posts: "mp4", none, and "mp4/../../passwd"
OutputExts ==
    {DefaultExt, << >>,
     <<FileName("mp4", 0), DotDot, DotDot, FileName("passwd", 0)>>}

Bodies == [command : SampleCommands, outputExt : {DefaultExt, << >>}]

\* the test's command with each of the extensions
ExtBodies ==
    [command : {<<"-i", " ", "${INPUT_MEDIA}", " ", "x.mp4">>},
     outputExt : OutputExts]

\* binding:"required" on Command and OutputExt
Binds(body) == body.command # << >> /\ body.outputExt # << >>

\* a handler that submits whatever splits
Admit_NoValidate(body) ==
    IF ~Binds(body)
    THEN [code |-> 400, error |-> "Field validation failed on the 'required' tag"]
    ELSE IF SplitCommand(body.command).err # NilErr
         THEN [code |-> 400, error |-> "Invalid command syntax"]
         ELSE [code |-> 202, error |-> ""]

\* what handleCreateTask answers before it calls Submit
Admit(body) ==
    IF ~Binds(body)
    THEN [code |-> 400, error |-> "Field validation failed on the 'required' tag"]
    ELSE IF SplitCommand(body.command).err # NilErr
         THEN [code |-> 400, error |-> "Invalid command syntax"]
         ELSE IF SanitizeAndValidateArgs(SplitCommand(body.command).args) # SanitizeOk
              THEN [code |-> 400, error |-> "Invalid command"]
              ELSE [code |-> 202, error |-> ""]

\* POST /api/v1/tasks: ShouldBindJSON, SplitCommand, SanitizeAndValidateArgs,
\* Submit (which returns no error), 202 with the id
HandleCreateTask(body) ==
    /\ IF Admit(body).code = 202
       THEN /\ Len(taskQueue) < queueCap
            /\ SubmitTask(body.outputExt)
            /\ call' = [op |-> "POST /api/v1/tasks", body |-> body, code |-> 202,
                        error |-> "", taskId |-> NextId]
       ELSE /\ call' = [op |-> "POST /api/v1/tasks", body |-> body,
                        code |-> Admit(body).code, error |-> Admit(body).error,
                        taskId |-> 0]
            /\ UNCHANGED managerVars

\* names a client asks for: up to MaxPathLen components, each a name of a
\* file of the temp directory, another name, ".", ".." or empty
Components ==
    {Dot, DotDot, Empty, FileName("output", 1), FileName("input", 1), FileName("other", 0)}
Filenames == UNION {[1..n -> Components] : n \in 0..MaxPathLen} \ {<<Empty>>}

\* filePath, err := h.taskManager.GetFilePath(filename)
CallGetFilePath ==
    /\ call.op = "GetFilePath"
    /\ ~call.returned
    /\ call' = [call EXCEPT !.returned = TRUE, !.ret = GetFilePath(call.filename)]
    /\ UNCHANGED managerVars

\* ------------------------------------------- Runner.Run: the argument list
\* strings.Contains(arg, InputMediaPlaceholder)
ContainsPlaceholder(arg) ==
    \E k \in 1..Len(arg) : arg[k] = InputMediaPlaceholder[1]

\* strings.Replace(arg, InputMediaPlaceholder, inputPath, 1): the first
\* occurrence gives way to the text of the path
ReplaceFirst(arg, inputPath) ==
    LET k == CHOOSE i \in 1..Len(arg) :
                 /\ arg[i] = InputMediaPlaceholder[1]
                 /\ \A j \in 1..(i - 1) : arg[j] # InputMediaPlaceholder[1]
    IN  SubSeq(arg, 1, k - 1) \o inputPath \o SubSeq(arg, k + 1, Len(arg))

\* a loop without its break: the last token with the placeholder wins
FirstHolder_Last(args) ==
    IF \E i \in 1..Len(args) : ContainsPlaceholder(args[i])
    THEN CHOOSE i \in 1..Len(args) :
             /\ ContainsPlaceholder(args[i])
             /\ \A j \in (i + 1)..Len(args) : ~ContainsPlaceholder(args[j])
    ELSE 0

\* for i, arg := range args { if strings.Contains(...) {...; break} }: the
\* index at which the loop stops, 0 when foundPlaceholder stays false
FirstHolder(args) ==
    IF \E i \in 1..Len(args) : ContainsPlaceholder(args[i])
    THEN CHOOSE i \in 1..Len(args) :
             /\ ContainsPlaceholder(args[i])
             /\ \A j \in 1..(i - 1) : ~ContainsPlaceholder(args[j])
    ELSE 0

\* steps 3 and 4 of Run on the split command: the argument list handed to
\* exec.CommandContext, or the error that ends Run before it
BuildArgs(args, inputPath, outputPath) ==
    IF FirstHolder(args) = 0
    THEN [err |-> <<"could not find placeholder in command">>, argv |-> << >>]
    ELSE [err |-> NilErr,
          argv |-> Append([args EXCEPT ![FirstHolder(args)] =
                               ReplaceFirst(@, inputPath)],
                          outputPath)]

\* the text of the paths of task 1
InputPathText == <<"/tmp/ffwebapi_/1_input_">>

OutputPathText == <<"/tmp/ffwebapi_/1_output.mp4">>

\* Run's preparation of the command call.args of task 1
CallBuildArgs ==
    /\ call.op = "Run: args"
    /\ ~call.returned
    /\ call' = [call EXCEPT !.returned = TRUE,
                            !.ret = BuildArgs(call.args, InputPathText,
                                              OutputPathText)]
    /\ UNCHANGED managerVars

\* ------------------------------------------------- api/handler: task reads
\* cfg.BaseURL: unset, or a URL with or without a slash at its end; a text
\* is the sequence of its pieces
BaseURLs == {<< >>, <<"http://base">>, <<"http://base", "/">>}

\* strings.TrimSuffix(baseURL, "/") that leaves the slash in place
TrimSuffix_Keep(s) == s

\* strings.TrimSuffix(baseURL, "/")
TrimSuffix(s) ==
    IF s # << >> /\ s[Len(s)] = "/" THEN SubSeq(s, 1, Len(s) - 1) ELSE s

\* scheme := "http" ; if c.Request.TLS != nil { scheme = "https" }
Scheme(tls) == IF tls THEN "https" ELSE "http"

\* buildDownloadURL: the task as the handler leaves it
BuildDownloadURL(t, baseURL, tls) ==
    IF t.status # StatusCompleted \/ t.outputPath = NoPath THEN t
    ELSE [t EXCEPT !.downloadURL =
             [base |-> TrimSuffix(IF baseURL = << >>
                                  THEN <<Scheme(tls), "://", "host">>
                                  ELSE baseURL),
              route |-> "/api/v1/files/",
              filename |-> Base(t.outputPath)]]

\* the handler's configuration, no request being served
Idle(baseURL) == [op |-> "none", baseURL |-> baseURL]

\* handleGetTaskStatus: 404 for an unknown id, else buildDownloadURL on the
\* task of the table and 200 with the task
HandleGetTaskStatus(id, tls) ==
    /\ call.op = "none"
    /\ IF id \notin DOMAIN tasks
       THEN /\ call' = [op |-> "GET /api/v1/tasks/:id", baseURL |-> call.baseURL,
                        id |-> id, tls |-> tls, code |-> 404]
            /\ UNCHANGED tasks
       ELSE /\ call' = [op |-> "GET /api/v1/tasks/:id", baseURL |-> call.baseURL,
                        id |-> id, tls |-> tls, code |-> 200]
            /\ tasks' = [tasks EXCEPT ![id] =
                            BuildDownloadURL(@, call.baseURL, tls)]
    /\ UNCHANGED <<maxConcurrency, submitLimit, runner, queueCap, taskQueue, sem, workerPc,
                   workerTask, exec, ctx, parentDone, cleanupPc, files, now,
                   cancelPc, cancelId, cancelRet, runInvoked, queuedCancels,
                   reaped>>

\* handleListTasks: 200 with m.List()
HandleListTasks ==
    /\ call.op = "none"
    /\ call' = [op |-> "GET /api/v1/tasks", baseURL |-> call.baseURL,
                code |-> 200]
    /\ UNCHANGED managerVars

\* the response is on the wire, the handler has returned
HandlerReturns ==
    /\ call.op \in {"GET /api/v1/tasks/:id", "GET /api/v1/tasks"}
    /\ call' = Idle(call.baseURL)
    /\ UNCHANGED managerVars

\* handleCancelTask: 400 with the error of Cancel, else 200
CancelStatus(err) == IF err # NilErr THEN 400 ELSE 200

\* ------------------------------------------------------ Runner.prepareInput
\* cfg.MaxInputSize, the counter of the io.LimitedReader and the byte counts
\* are int64 values; the model keeps the two's complement arithmetic at a
\* width of IntBits bits.
MaxInt == 2 ^ (IntBits - 1) - 1

MinInt == 0 - 2 ^ (IntBits - 1)

\* int64 addition wraps around.
WrapInt(x) == ((x - MinInt) % (2 ^ IntBits)) + MinInt

\* io.Copy from an io.LimitedReader with counter n over a body of size bytes:
\* Read returns EOF at once when n <= 0, else at most n bytes are copied.
LimitedCopy(size, n) ==
    IF n <= 0 THEN 0 ELSE IF size < n THEN size ELSE n

SizeLimitError == <<"input file size exceeds limit">>

\* The URL branch, for a response of size bytes that arrives whole: the
\* reader is limited to MaxInputSize + 1 bytes and the copy is refused when
\* more than MaxInputSize bytes were written.  staged is the number of bytes
\* in the staged file that is handed to the transcoder.
PrepareInputUrl(size, maxInputSize) ==
    LET written == LimitedCopy(size, WrapInt(maxInputSize + 1))
    IN  IF written > maxInputSize
        THEN [err |-> SizeLimitError, staged |-> 0]
        ELSE [err |-> NilErr, staged |-> written]

\* The local branch, for a readable file of size bytes: the size that Stat
\* reports is compared first, then the whole file is copied.
PrepareInputLocal(size, maxInputSize) ==
    IF size > maxInputSize
    THEN [err |-> SizeLimitError, staged |-> 0]
    ELSE [err |-> NilErr, staged |-> size]

PrepareInput(branch, size, maxInputSize) ==
    IF branch = "url" THEN PrepareInputUrl(size, maxInputSize)
    ELSE PrepareInputLocal(size, maxInputSize)

\* One call of the stager on an input of call.size bytes under the limit
\* call.maxInputSize.
CallPrepareInput ==
    /\ call.op = "prepareInput"
    /\ ~call.returned
    /\ call' = [call EXCEPT !.returned = TRUE,
                            !.ret = PrepareInput(call.branch, call.size,
                                                 call.maxInputSize)]
    /\ UNCHANGED managerVars

\* ------------------------------------------------------------- cleanupLoop
\* the test of one Range callback: completed, older than the lifetime, path set
Expired(t) ==
    /\ t.status = StatusCompleted
    /\ Since(t.completedAt) > OutputLocalLifetime
    /\ t.outputPath # NoPath

\* the ids whose file one sweep removes
Sweep == {i \in DOMAIN tasks : Expired(tasks[i])}

\* a sweep with the commented-out m.tasks.Delete(key) switched on
CleanupTick_Deleting ==
    /\ cleanupPc = "select"
    /\ files' = files \ {tasks[i].outputPath : i \in Sweep}
    /\ reaped' = reaped \cup {i \in Sweep : tasks[i].outputPath \in files}
    /\ tasks' = [i \in DOMAIN tasks \ Sweep |-> tasks[i]]
    /\ UNCHANGED <<call, maxConcurrency, submitLimit, runner, queueCap, taskQueue, sem, workerPc,
                   workerTask, exec, ctx, parentDone, cleanupPc, now, cancelPc,
                   cancelId, cancelRet, runInvoked, queuedCancels>>

\* case <-ticker.C: m.tasks.Range(...) with os.Remove(task.OutputPath)
CleanupTick ==
    /\ cleanupPc = "select"
    /\ files' = files \ {tasks[i].outputPath : i \in Sweep}
    /\ reaped' = reaped \cup {i \in Sweep : tasks[i].outputPath \in files}
    /\ UNCHANGED <<call, maxConcurrency, submitLimit, runner, queueCap, tasks, taskQueue, sem, workerPc,
                   workerTask, exec, ctx, parentDone, cleanupPc, now, cancelPc,
                   cancelId, cancelRet, runInvoked, queuedCancels>>

\* case <-ctx.Done(): return
CleanupExit ==
    /\ cleanupPc = "select"
    /\ parentDone
    /\ cleanupPc' = "exited"
    /\ UNCHANGED <<call, maxConcurrency, submitLimit, runner, queueCap, tasks, taskQueue, sem, workerPc,
                   workerTask, exec, ctx, parentDone, files, now, cancelPc,
                   cancelId, cancelRet, runInvoked, queuedCancels, reaped>>

\* ------------------------------------------------------------- environment
\* time passes
Tick ==
    /\ now < MaxTime
    /\ now' = now + 1
    /\ UNCHANGED <<call, maxConcurrency, submitLimit, runner, queueCap, tasks, taskQueue, sem, workerPc,
                   workerTask, exec, ctx, parentDone, cleanupPc, files, cancelPc,
                   cancelId, cancelRet, runInvoked, queuedCancels, reaped>>

\* SIGINT/SIGTERM: the context of signal.NotifyContext is done, and with it
\* every task context derived from it
Shutdown ==
    /\ ~parentDone
    /\ parentDone' = TRUE
    /\ ctx' = [i \in Ids |-> IF ctx[i] = "live" THEN "canceled" ELSE ctx[i]]
    /\ UNCHANGED <<call, maxConcurrency, submitLimit, runner, queueCap, tasks, taskQueue, sem, workerPc,
                   workerTask, exec, cleanupPc, files, now, cancelPc, cancelId,
                   cancelRet, runInvoked, queuedCancels, reaped>>

\* ----------------------------------------------------------- specification
\* the steps of processTask around the driver
Executor(id) ==
    \/ ProcessTaskStart(id)
    \/ ProcessTaskBegin(id)
    \/ ProcessTaskClassify(id)
    \/ ProcessTaskFinish(id)

\* the steps of Runner.Run
RunnerRun(id) ==
    \/ RunGate(id)
    \/ RunStage(id)
    \/ RunPrepare(id)
    \/ RunExec(id)

\* the dispatch loop and the executors
Dispatch ==
    \/ WorkerPop
    \/ WorkerLaunch
    \/ \E id \in Ids : Executor(id)

\* the goroutine of a PATCH .../cancel request
Canceler ==
    \/ \E id \in Ids : CancelCall(id)
    \/ CancelQueued
    \/ CancelRespond

\* The manager of the tests: a mock driver, any number of submissions up to
\* MaxTasks, cancel requests and task deadlines; the clock stands still and
\* nobody shuts the process down.
Init == Start(0..MaxConcurrencyBound, MockRunners, MaxTasks)

Next ==
    \/ Submit
    \/ Dispatch
    \/ \E id \in Ids : MockRun(id)
    \/ \E id \in Ids : Timeout(id)
    \/ Canceler

Spec == Init /\ [][Next]_vars

\* The manager with the real Runner (and the mocks), cancel requests and
\* deadlines.
InitDriver == Start({TestMaxConcurrency}, Runners, MaxDriverTasks)

NextDriver ==
    \/ Submit
    \/ Dispatch
    \/ \E id \in Ids : MockRun(id)
    \/ \E id \in Ids : RunnerRun(id)
    \/ \E id \in Ids : Timeout(id)
    \/ Canceler

SpecDriver == InitDriver /\ [][NextDriver]_vars

\* The manager with the real Runner, the reaper and the clock.
InitReaper == Start({TestMaxConcurrency}, {"Runner"}, MaxDriverTasks)

NextReaper ==
    \/ Submit
    \/ Dispatch
    \/ \E id \in Ids : RunnerRun(id)
    \/ CleanupTick
    \/ Tick

SpecReaper == InitReaper /\ [][NextReaper]_vars

\* Everything, shutdown included.
NextAll ==
    \/ NextDriver
    \/ CleanupTick
    \/ CleanupExit
    \/ WorkerExit
    \/ Tick
    \/ Shutdown

SpecAll == InitDriver /\ [][NextAll]_vars


\* The process of main with the real Runner, brought down by a signal: no
\* cancel requests, no deadlines, the clock stands still.  The scheduler
\* runs every goroutine that can take a step; the clients and the signal
\* are under no obligation.
InitShutdown == Start(0..TestMaxConcurrency, {"Runner"}, MaxDriverTasks)

NextShutdown ==
    \/ Submit
    \/ Dispatch
    \/ \E id \in Ids : RunnerRun(id)
    \/ WorkerExit
    \/ CleanupExit
    \/ Shutdown

FairnessShutdown ==
    /\ WF_vars(WorkerPop \/ WorkerLaunch \/ WorkerExit)
    /\ WF_vars(CleanupExit)
    /\ \A id \in Ids : WF_vars(Executor(id) \/ RunnerRun(id))

SpecShutdown == InitShutdown /\ [][NextShutdown]_vars /\ FairnessShutdown

\* The validator on its own: one call of SanitizeAndValidateArgs on each
\* argument vector of up to MaxArgs tokens; the manager stands by.
InitSanitize ==
    /\ StartManager({TestMaxConcurrency}, {"Runner"}, 0)
    /\ call \in [op : {"SanitizeAndValidateArgs"}, args : Argvs,
                 returned : {FALSE}, err : {SanitizeOk}]

NextSanitize == CallSanitize

SpecSanitize == InitSanitize /\ [][NextSanitize]_vars

\* The server with the real Runner and clients that post task requests.
InitApi == Start({TestMaxConcurrency}, {"Runner"}, MaxDriverTasks)

NextApi ==
    \/ \E body \in Bodies : HandleCreateTask(body)
    \/ Dispatch
    \/ \E id \in Ids : RunnerRun(id)

SpecApi == InitApi /\ [][NextApi]_vars

\* The server with the real Runner and clients that post the test's command
\* with an extension of their choice.
NextExt ==
    \/ \E body \in ExtBodies : HandleCreateTask(body)
    \/ Dispatch
    \/ \E id \in Ids : RunnerRun(id)

SpecExt == InitApi /\ [][NextExt]_vars

\* The file endpoint: the real Runner stages inputs and writes outputs, and
\* at some moment a client asks for a file; one call of GetFilePath for each
\* name.
InitFiles ==
    /\ StartManager({TestMaxConcurrency}, {"Runner"}, MaxDriverTasks)
    /\ call \in [op : {"GetFilePath"}, filename : Filenames, returned : {FALSE},
                 ret : {[path |-> NoPath, err |-> NilErr]}]

NextFiles ==
    \/ Submit
    \/ Dispatch
    \/ \E id \in Ids : RunnerRun(id)
    \/ CallGetFilePath

SpecFiles == InitFiles /\ [][NextFiles]_vars

\* The stager on its own: one call on an input of each size, under each
\* limit cfg.MaxInputSize >= 0, through each of its two branches.
InitStage ==
    /\ StartManager({TestMaxConcurrency}, {"Runner"}, 0)
    /\ call \in [op : {"prepareInput"}, branch : {"url", "local"},
                 size : 0..MaxInt, maxInputSize : 0..MaxInt,
                 returned : {FALSE}, ret : {[err |-> NilErr, staged |-> 0]}]

NextStage == CallPrepareInput

SpecStage == InitStage /\ [][NextStage]_vars

\* The gate: the real Runner on a host whose three readings are fixed for
\* the run, one run for each combination of readings.
InitGate ==
    /\ StartManager({TestMaxConcurrency}, {"Runner"}, MaxDriverTasks)
    /\ call \in [op : {"checkResources"}, sample : Samples,
                 returned : {FALSE}, err : {NilErr}]

NextGate ==
    \/ Submit
    \/ Dispatch
    \/ \E id \in Ids : CallCheckResources(id)
    \/ \E id \in Ids : RunStage(id)
    \/ \E id \in Ids : RunPrepare(id)
    \/ \E id \in Ids : RunExec(id)

SpecGate == InitGate /\ [][NextGate]_vars

\* The server with the real Runner under each configured BASE: clients
\* submit, cancel, and read the tasks and the list of tasks.
InitHttp ==
    /\ StartManager({TestMaxConcurrency}, {"Runner"}, MaxDriverTasks)
    /\ call \in {Idle(b) : b \in BaseURLs}

NextHttp ==
    \/ Submit
    \/ Dispatch
    \/ \E id \in Ids : RunnerRun(id)
    \/ Canceler
    \/ \E id \in Ids, tls \in BOOLEAN : HandleGetTaskStatus(id, tls)
    \/ HandleListTasks
    \/ HandlerReturns

SpecHttp == InitHttp /\ [][NextHttp]_vars

\* The full queue: the manager of the tests with a task queue of MaxQueue
\* places instead of 100, so that MaxTasks submissions can fill it; clients
\* submit and cancel.
InitQueue ==
    /\ NewManager(0..MaxConcurrencyBound, {"mockSuccess"}, MaxTasks, MaxQueue)
    /\ call = NoCall

NextQueue ==
    \/ Submit
    \/ Dispatch
    \/ \E id \in Ids : MockRun(id)
    \/ Canceler

SpecQueue == InitQueue /\ [][NextQueue]_vars

\* The argument list on its own: Run's preparation of each command of up to
\* MaxArgs tokens, validated or not.
InitArgs ==
    /\ StartManager({TestMaxConcurrency}, {"Runner"}, 0)
    /\ call \in [op : {"Run: args"}, args : Argvs, returned : {FALSE},
                 ret : {[err |-> NilErr, argv |-> << >>]}]

NextArgs == CallBuildArgs

SpecArgs == InitArgs /\ [][NextArgs]_vars

\* The manager of the tests with a driver that always returns, at least one
\* slot and cancel requests, under a scheduler that runs every runnable
\* goroutine of the manager; nobody shuts the process down.
InitReturning ==
    Start(1..MaxConcurrencyBound, {"mockSuccess", "mockFail"}, MaxTasks)

NextReturning ==
    \/ Submit
    \/ Dispatch
    \/ \E id \in Ids : MockRun(id)
    \/ Canceler

FairnessReturning ==
    /\ WF_vars(WorkerPop)
    /\ WF_vars(WorkerLaunch)
    /\ \A id \in Ids :
          /\ WF_vars(Executor(id))
          /\ WF_vars(MockRun(id))

SpecReturning ==
    InitReturning /\ [][NextReturning]_vars /\ FairnessReturning

\* The manager of the cancel test: the driver that blocks on <-ctx.Done(),
\* under a scheduler that runs every runnable goroutine.
InitBlocking == Start(1..MaxConcurrencyBound, {"mockBlocking"}, MaxTasks)

Fairness ==
    \A id \in Ids :
        /\ WF_vars(MockRun(id))
        /\ WF_vars(ProcessTaskClassify(id))
        /\ WF_vars(ProcessTaskFinish(id))

SpecBlocking == InitBlocking /\ [][Next]_vars /\ Fairness

\* ================================================================== claims
Processing == {i \in DOMAIN tasks : tasks[i].status = StatusProcessing}

\* C1: in every reachable state the number of tasks whose status is
\* processing is at most MaxConcurrency.
C1_ProcessingBounded == Cardinality(Processing) <= maxConcurrency

\* C1 witness: the limit is reached while the dispatch loop holds a further
\* task that waits for a slot.
C1_Witness ==
    /\ maxConcurrency >= 1
    /\ Cardinality(Processing) = maxConcurrency
    /\ workerPc = "acquire"

FSM == {<<StatusQueued, StatusProcessing>>, <<StatusQueued, StatusCanceled>>,
        <<StatusProcessing, StatusCompleted>>, <<StatusProcessing, StatusFailed>>,
        <<StatusProcessing, StatusCanceled>>}

\* C2: the status of a task only changes along queued->processing,
\* queued->canceled, processing->completed, processing->failed or
\* processing->canceled; a terminal status never changes again.
C2_StatusFollowsFSM ==
    [][\A id \in DOMAIN tasks :
          tasks'[id].status # tasks[id].status
          => <<tasks[id].status, tasks'[id].status>> \in FSM]_vars

\* C3: if Cancel found the task queued, set it to canceled and returned no
\* error, the driver's Run is never invoked for that task.
C3_QueuedCancelNeverRuns == queuedCancels \cap runInvoked = {}

\* a Cancel call on id that saw status processing has returned
CanceledWhileProcessing(id) ==
    /\ cancelPc = "returned"
    /\ cancelRet.id = id
    /\ cancelRet.observed = StatusProcessing

\* C4: Cancel on a processing task whose driver blocks until its context is
\* done returns no error, and the task eventually reaches status canceled.
C4_CancelProcessing ==
    \A id \in Ids :
        /\ [](CanceledWhileProcessing(id) => cancelRet.err = NilErr)
        /\ CanceledWhileProcessing(id)
             ~> (id \in DOMAIN tasks /\ tasks[id].status = StatusCanceled)

\* C4 witness: the call has returned nil and the executor has since turned
\* the driver's ctx.Err() into the status canceled.
C4_Witness ==
    \E id \in DOMAIN tasks :
        /\ CanceledWhileProcessing(id)
        /\ cancelRet.err = NilErr
        /\ exec[id].pc = "done"
        /\ exec[id].err = ContextCanceled
        /\ tasks[id].status = StatusCanceled

\* C5: Cancel on a task whose status is completed, failed or canceled
\* returns the error 'cannot cancel task in state: <status>' and changes no
\* field of any task, at every call.
C5_CancelTerminalRefused ==
    [][\A id \in DOMAIN tasks :
          (/\ cancelPc = "idle"
           /\ cancelPc' # "idle"
           /\ tasks[id].status \in Terminal
           /\ cancelId' = id \/ cancelRet'.id = id)
          => /\ cancelPc' = "returned"
             /\ cancelRet' = [id |-> id, observed |-> tasks[id].status,
                              err |-> <<"cannot cancel task in state", tasks[id].status>>]
             /\ tasks' = tasks
             /\ ctx' = ctx]_vars

\* C5 witness: a call on a task that an earlier Cancel left canceled has
\* been refused.
C5_Witness ==
    \E id \in queuedCancels :
        /\ cancelPc = "returned"
        /\ cancelRet = [id |-> id, observed |-> StatusCanceled,
                        err |-> <<"cannot cancel task in state", StatusCanceled>>]

\* the error reports a canceled or expired context: its innermost layer is
\* ctx.Err() or the kill the context delivered to the child process
CausedByCtx(err) ==
    /\ err # NilErr
    /\ err[Len(err)] \in {"context canceled", "context deadline exceeded", "signal: killed"}

\* the executor of id writes the outcome of Run in this step
Classifies(id) == exec[id].pc = "classify" /\ exec'[id].pc = "stamp"

\* C6: when Run returns no error the executor sets the task to completed
\* and stores the returned log; when Run returns an error that is no
\* cancellation or deadline error it sets the task to failed with the
\* error's message.
C6_OutcomeRecorded ==
    [][\A id \in DOMAIN tasks :
          Classifies(id)
          => /\ tasks'[id].ffmpegOutput = exec[id].log
             /\ exec[id].err = NilErr => tasks'[id].status = StatusCompleted
             /\ (exec[id].err # NilErr /\ ~CausedByCtx(exec[id].err))
                  => /\ tasks'[id].status = StatusFailed
                     /\ tasks'[id].error = exec[id].err]_vars

\* C6 witness: the Runner's transcoder exited non-zero and the task is
\* failed with the wrapped message and the captured log.
C6_Witness ==
    \E id \in DOMAIN tasks :
        /\ exec[id].pc = "stamp"
        /\ exec[id].err = <<"ffmpeg execution failed", "exit status 1">>
        /\ tasks[id].status = StatusFailed
        /\ tasks[id].error = exec[id].err
        /\ tasks[id].ffmpegOutput = "ffmpeg log"

\* C7: whenever the driver returns an error because the task context was
\* canceled or expired, the executor sets the task to canceled with error
\* 'Task was canceled or timed out', never to failed.
C7_CtxErrorMeansCanceled ==
    \A id \in DOMAIN tasks :
        (exec[id].pc = "stamp" /\ CausedByCtx(exec[id].err))
        => /\ tasks[id].status = StatusCanceled
           /\ tasks[id].error = <<"Task was canceled or timed out">>

\* C8: for every task in a terminal status the file at its staged inputPath
\* no longer exists.
C8_StagedInputGone ==
    \A id \in DOMAIN tasks :
        tasks[id].status \in Terminal => tasks[id].inputPath \notin files

\* C9: the output file of a completed task is missing only when more than
\* OutputLifetime has elapsed since the task's completion.
C9_ArtifactKeptForLifetime ==
    \A id \in DOMAIN tasks :
        (/\ tasks[id].status = StatusCompleted
         /\ tasks[id].outputPath # NoPath
         /\ tasks[id].outputPath \notin files)
        => /\ tasks[id].completedAt # ZeroTime
           /\ now - tasks[id].completedAt > OutputLocalLifetime

\* C10: a sweep removes no entry of the task table and changes no field of
\* any task; right after it has reaped a task's artifact, Get finds the task
\* completed with its outputPath set while GetFilePath of the artifact's
\* name fails with file-not-found; an id once inserted is found ever after.
C10_ReaperFrame ==
    [][/\ reaped' # reaped
          => /\ tasks' = tasks
             /\ \A id \in reaped' \ reaped :
                   /\ Get(id)'.found
                   /\ tasks'[id].status = StatusCompleted
                   /\ tasks'[id].outputPath # NoPath
                   /\ GetFilePath(Base(tasks[id].outputPath))'.err = <<"file not found">>
       /\ \A id \in DOMAIN tasks : Get(id)'.found]_vars

\* C10 witness: a completed task's artifact was reaped after its lifetime.
C10_Witness ==
    \E id \in reaped :
        /\ tasks[id].status = StatusCompleted
        /\ tasks[id].outputPath = OutputFile(id)
        /\ tasks[id].completedAt # ZeroTime
        /\ now - tasks[id].completedAt > OutputLocalLifetime
        /\ GetFilePath(Base(tasks[id].outputPath)).err = <<"file not found">>

\* C11: in every reachable state a task's cancel handle is set exactly when
\* its status is processing: installed on entering processing, cleared on
\* the terminal transition, absent on queued and terminal tasks.
C11_CancelHandleIffProcessing ==
    \A id \in DOMAIN tasks :
        tasks[id].cancelFunc <=> tasks[id].status = StatusProcessing

\* C12: in every reachable state a task's outputPath is non-empty exactly
\* when its status is completed; it is empty while the task is queued or
\* processing.
C12_OutputPathIffCompleted ==
    \A id \in DOMAIN tasks :
        tasks[id].outputPath # NoPath <=> tasks[id].status = StatusCompleted

\* Submit numbers the tasks in the order of its pushes: a was pushed before b
PushedBefore(a, b) == a < b

\* the dispatch loop has acquired a slot for id and started its executor
Launched(id) == exec[id].pc # "none"

\* C13: tasks are handed to executors in the order of their pushes: when
\* the dispatch loop pops b, it has acquired the slot of and launched the
\* executor of every task pushed before b.
C13_FifoDispatch ==
    [][\A b \in DOMAIN tasks :
          (workerTask # b /\ workerTask' = b)
          => \A a \in DOMAIN tasks :
                PushedBefore(a, b)
                => /\ Launched(a)
                   /\ \A i \in 1..Len(taskQueue') : taskQueue'[i] # a]_vars

\* C13 witness: the executor of the first task has been launched and has not
\* yet set it processing, and the dispatch loop has popped the second.
C13_Witness ==
    /\ workerTask = 2
    /\ Launched(1)
    /\ tasks[1].status = StatusQueued
    /\ taskQueue = << >>

\* C14: Submit creates a task with a non-empty id and status queued,
\* inserts it into the table so that Get of the returned id finds it, and
\* pushes it onto the submission queue exactly once: the step that inserts
\* the task appends its id, which the queue did not hold, and no other step
\* lengthens the queue.
C14_SubmitInserts ==
    [][/\ DOMAIN tasks' # DOMAIN tasks
          => \E id \in DOMAIN tasks' \ DOMAIN tasks :
                /\ DOMAIN tasks' = DOMAIN tasks \cup {id}
                /\ id \in Ids
                /\ tasks'[id].status = StatusQueued
                /\ Get(id)' = [found |-> TRUE, id |-> id]
                /\ taskQueue' = Append(taskQueue, id)
                /\ \A i \in 1..Len(taskQueue) : taskQueue[i] # id
                /\ \A other \in DOMAIN tasks : tasks'[other] = tasks[other]
       /\ Len(taskQueue') > Len(taskQueue) => DOMAIN tasks' # DOMAIN tasks]_vars

\* C14 witness: two submitted tasks are in the table, queued, and wait in
\* the queue in the order of their submission.
C14_Witness ==
    /\ DOMAIN tasks = {1, 2}
    /\ taskQueue = <<1, 2>>
    /\ \A id \in {1, 2} : Get(id).found /\ tasks[id].status = StatusQueued

\* a Cancel call on id that saw status queued has returned
CanceledWhileQueued(id) ==
    /\ cancelPc = "returned"
    /\ cancelRet.id = id
    /\ cancelRet.observed = StatusQueued

\* C15: with MaxConcurrency = 0 no task is ever moved out of queued by the
\* worker and the driver is never invoked; Cancel on such a queued task
\* returns no error and leaves it canceled with the error 'Canceled by user
\* while in queue'.
C15_ZeroConcurrency ==
    maxConcurrency = 0
    => /\ runInvoked = {}
       /\ \A id \in DOMAIN tasks :
             /\ ~Launched(id)
             /\ tasks[id].status \in {StatusQueued, StatusCanceled}
             /\ tasks[id].status = StatusCanceled => id \in queuedCancels
             /\ CanceledWhileQueued(id)
                  => /\ cancelRet.err = NilErr
                     /\ tasks[id].status = StatusCanceled
                     /\ tasks[id].error = <<"Canceled by user while in queue">>
       /\ cancelRet.observed \notin {StatusProcessing, StatusCompleted, StatusFailed}

\* C15 witness: with no slot at all the dispatch loop is stuck on the send
\* for the first task, and a Cancel of that task has returned nil.
C15_Witness ==
    /\ maxConcurrency = 0
    /\ workerPc = "acquire"
    /\ workerTask = 1
    /\ CanceledWhileQueued(1)
    /\ cancelRet.err = NilErr
    /\ tasks[1].status = StatusCanceled
    /\ tasks[1].error = <<"Canceled by user while in queue">>

\* C16: after the parent context is canceled the dispatch loop and the
\* reaper loop both eventually exit, from every reachable state (a dispatch
\* loop waiting for a semaphore slot included), and the dispatch loop starts
\* no further executor.
C16_ShutdownStopsLoops ==
    /\ parentDone ~> (workerPc = "exited" /\ cleanupPc = "exited")
    /\ [][parentDone => \A id \in Ids : Launched(id)' => Launched(id)]_vars

\* C17: when the parent context is canceled while tasks are processing, the
\* context of each such task is canceled and the task eventually reaches
\* the status canceled.
C17_ShutdownCancelsProcessing ==
    \A id \in Ids :
        /\ [](parentDone => ctx[id] # "live")
        /\ (parentDone /\ id \in Processing)
             ~> (id \in DOMAIN tasks /\ tasks[id].status = StatusCanceled)

\* the token is the sentinel itself
IsSentinel(token) == token = <<"${INPUT_MEDIA}">>

\* the token holds one of the characters | & ; ` $ ( ) < > (the sentinel's
\* own text holds a $)
HasMetacharacter(token) ==
    \E k \in 1..Len(token) :
        token[k] \in {"|", "&", ";", "BACKTICK", "$", "(", ")", "<", ">", "${INPUT_MEDIA}"}

\* the argument vector meets the rule of the validator
Admissible(args) ==
    /\ \E i \in 1..Len(args) : IsSentinel(args[i])
    /\ \A i \in 1..Len(args) : ~IsSentinel(args[i]) => ~HasMetacharacter(args[i])

\* the call has returned: ok exactly for the admissible vectors, and a token
\* that only contains the sentinel is rejected
SanitizeDecides ==
    /\ call.err = SanitizeOk <=> Admissible(call.args)
    /\ (\E i \in 1..Len(call.args) :
           /\ ~IsSentinel(call.args[i])
           /\ \E k \in 1..Len(call.args[i]) : call.args[i][k] = "${INPUT_MEDIA}")
       => call.err # SanitizeOk

NoSentinel(args) == \A i \in 1..Len(args) : ~IsSentinel(args[i])

\* C18 as stated: SanitizeAndValidateArgs(argv) returns ok iff at least one
\* token equals ${INPUT_MEDIA} and every other token holds none of the
\* characters | & ; ` $ ( ) < >; a token that merely contains the sentinel
\* is rejected, and an argv without a sentinel token is rejected with the
\* 'input placeholder' error.
C18_Original ==
    (call.op = "SanitizeAndValidateArgs" /\ call.returned)
    => /\ SanitizeDecides
       /\ NoSentinel(call.args)
            => call.err.msg = "command must include the input placeholder"

\* C18 amended: ... an argv without a sentinel token and without a
\* metacharacter in any token is rejected with the 'input placeholder'
\* error; an argv in which a token other than the sentinel holds a
\* metacharacter is rejected with the 'disallowed character' error naming
\* the first such token, with or without a sentinel.
C18_SanitizeDecides ==
    (call.op = "SanitizeAndValidateArgs" /\ call.returned)
    => /\ SanitizeDecides
       /\ (NoSentinel(call.args) /\ \A i \in 1..Len(call.args) : ~HasMetacharacter(call.args[i]))
            => call.err.msg = "command must include the input placeholder"
       /\ \A i \in 1..Len(call.args) :
             (/\ ~IsSentinel(call.args[i]) /\ HasMetacharacter(call.args[i])
              /\ \A j \in 1..(i - 1) :
                    IsSentinel(call.args[j]) \/ ~HasMetacharacter(call.args[j]))
             => call.err = [msg |-> "disallowed character found in argument",
                            arg |-> call.args[i]]

\* C18 witness: a vector without the sentinel whose second token holds a
\* semicolon was rejected for the character, not for the missing sentinel.
C18_Witness ==
    /\ call.op = "SanitizeAndValidateArgs"
    /\ call.returned
    /\ call.args = << <<"-i">>, <<"a", ";">> >>
    /\ call.err = [msg |-> "disallowed character found in argument", arg |-> <<"a", ";">>]

\* this step is the answer to a POST /api/v1/tasks
Posted == call' # call /\ call'.op = "POST /api/v1/tasks"

\* the posted command splits and its tokens validate
PassesBoth(command) ==
    /\ SplitCommand(command).err = NilErr
    /\ SanitizeAndValidateArgs(SplitCommand(command).args) = SanitizeOk

\* the POST was refused: 400, no task created, nothing queued
Refused ==
    /\ call'.code = 400
    /\ tasks' = tasks
    /\ taskQueue' = taskQueue

\* the POST was accepted: 202 with the id of a task that is now in the table
Accepted ==
    /\ call'.code = 202
    /\ \E id \in Ids :
          /\ call'.taskId = id
          /\ ~Get(id).found
          /\ Get(id)' = [found |-> TRUE, id |-> id]
          /\ tasks'[id].status = StatusQueued
          /\ taskQueue' = Append(taskQueue, id)

\* the answer carries an admission error or none: never one of staging, of
\* the gate or of the driver
AdmissionOnly ==
    /\ call'.code \in {202, 400}
    /\ call'.error \in {"", "Field validation failed on the 'required' tag",
                        "Invalid command syntax", "Invalid command"}

\* C19 as stated: a POST /api/v1/tasks whose command fails split or
\* validate is answered 400 and leaves table and queue unchanged; one whose
\* command passes both is answered 202 with the id of a task now in the
\* table; no staging, gate or driver error is returned on the POST.
C19_Original ==
    [][Posted
       => /\ ~PassesBoth(call'.body.command) => Refused
          /\ PassesBoth(call'.body.command) => Accepted
          /\ AdmissionOnly]_vars

\* C19 amended: ... one whose body binds (command and outputExt both
\* present and non-empty) and whose command passes both is answered 202
\* with the id of a task now in the table; a body that does not bind is
\* answered 400 and creates no task, whatever its command.
C19_PostAdmission ==
    [][Posted
       => /\ (~PassesBoth(call'.body.command) \/ ~Binds(call'.body)) => Refused
          /\ (PassesBoth(call'.body.command) /\ Binds(call'.body)) => Accepted
          /\ AdmissionOnly]_vars

\* C19 witness: while the first task has failed in the driver, a POST whose
\* command is cut by a semicolon has been answered 400 and nothing was queued
\* for it.
C19_Witness ==
    /\ call.op = "POST /api/v1/tasks"
    /\ call.body.command = <<"-i", " ", "${INPUT_MEDIA}", ";", " ", "ls">>
    /\ call.code = 400
    /\ call.error = "Invalid command"
    /\ DOMAIN tasks = {1}
    /\ tasks[1].status = StatusFailed
    /\ taskQueue = << >>

\* the name is one component that names an entry: no separator, not ".",
\* not "..", not empty
PureBasename(filename) ==
    /\ Len(filename) = 1
    /\ filename[1] \notin {Dot, DotDot, Empty}

\* the path lies directly in the temp root
DirectChild(path) ==
    /\ Len(path) = Len(TempDir) + 1
    /\ SubSeq(path, 1, Len(TempDir)) = TempDir
    /\ path[Len(path)] \notin {Dot, DotDot, Empty}

\* C20: GetFilePath returns a path only when the name is a pure basename
\* naming an existing entry of the temp root; for every input ('.', '..',
\* the empty string and names with a separator included) a returned path is
\* a direct child of the temp root, and otherwise an error is returned.
C20_PathStaysInTempRoot ==
    [][(call.op = "GetFilePath" /\ ~call.returned /\ call'.returned)
       => IF call'.ret.err = NilErr
          THEN /\ PureBasename(call.filename)
               /\ DirectChild(call'.ret.path)
               /\ call'.ret.path \in files
          ELSE call'.ret.path = NoPath]_vars


\* C21: through the URL branch and through the local branch, an input of
\* exactly MaxInputSize bytes is staged (no error, and the staged file holds
\* the input), and an input of more than MaxInputSize bytes is refused with
\* the size-limit error, for every MaxInputSize >= 0.
C21_SizeBoundary ==
    (call.op = "prepareInput" /\ call.returned) =>
        /\ (call.size = call.maxInputSize) =>
               call.ret = [err |-> NilErr, staged |-> call.size]
        /\ (call.size > call.maxInputSize) => call.ret.err = SizeLimitError


\* some signal was sampled successfully and breaches its threshold
Breached(s) ==
    \/ ~s.cpu.err /\ \E k \in DOMAIN s.cpu.p :
                        k = 1 /\ s.cpu.p[k] > 100 - ThrottleCPU
    \/ ~s.mem.err /\ s.mem.available < ThrottleFreeMem
    \/ ~s.disk.err /\ s.disk.free < ThrottleFreeDisk

GateError == Wrap("insufficient system resources", call.err)

\* the run of task id was refused by the gate
GateRejected(id) ==
    /\ call.op = "checkResources" /\ call.returned /\ call.err # NilErr
    /\ exec[id].pc \in {"classify", "stamp", "done"}
    /\ exec[id].err = GateError

GetStep(id) ==
    /\ call.op = "none"
    /\ call'.op = "GET /api/v1/tasks/:id"
    /\ call'.id = id

\* this step is Cancel(id) returning "task not found"
CancelUnknownStep(id) ==
    /\ cancelPc = "idle" /\ cancelPc' = "returned"
    /\ cancelRet'.id = id /\ cancelRet'.err = <<"task not found">>

\* a GET for an id that is not in the table is answered 404, table untouched
GetUnknownIs404 ==
    [][\A id \in Ids : (GetStep(id) /\ id \notin DOMAIN tasks)
                           => (call'.code = 404 /\ tasks' = tasks)]_vars

\* a cancel request for an id that is not in the table leaves the table
CancelUnknownWritesNothing ==
    [][\A id \in Ids : CancelUnknownStep(id)
                           => (id \notin DOMAIN tasks /\ tasks' = tasks)]_vars

\* the answer to a cancel request for an id that is not in the table is 404
CancelUnknownIs404 ==
    [](cancelPc = "returned" /\ cancelRet.err = <<"task not found">>
          => CancelStatus(cancelRet.err) = 404)

\* C23: a request for the status of a task, or for its cancellation, whose
\* id is not in the table is answered 404 and leaves the table unchanged.
C23_UnknownIdIs404 ==
    /\ GetUnknownIs404
    /\ CancelUnknownWritesNothing
    /\ CancelUnknownIs404


\* the base of a URL with every slash at its end removed
RECURSIVE WithoutTrailingSlash(_)
WithoutTrailingSlash(s) ==
    IF s # << >> /\ s[Len(s)] = "/"
    THEN WithoutTrailingSlash(SubSeq(s, 1, Len(s) - 1))
    ELSE s

\* the URL under which the output of task t is offered to this request
ExpectedURL(t, baseURL, tls) ==
    [base |-> WithoutTrailingSlash(
                  IF baseURL # << >> THEN baseURL
                  ELSE <<IF tls THEN "https" ELSE "http", "://", "host">>),
     route |-> "/api/v1/files/",
     filename |-> <<t.outputPath[Len(t.outputPath)]>>]

\* C24: the task in a task-status response has a download URL only if it is
\* completed with an output path, and then the URL is the base without its
\* trailing slash, the files route and the base name of the output path; the
\* base is the configured BASE or, when unset, scheme://host of the request.
C24_DownloadURL ==
    [][\A id \in DOMAIN tasks :
          (GetStep(id) /\ call'.code = 200 /\ tasks'[id].downloadURL # NoURL)
              => /\ tasks'[id].status = StatusCompleted
                 /\ tasks'[id].outputPath # NoPath
                 /\ tasks'[id].downloadURL =
                        ExpectedURL(tasks'[id], call.baseURL, call'.tls)]_vars


\* this step is a read handler answering: the status of one task or the list
ReadStep ==
    /\ call.op = "none"
    /\ call'.op \in {"GET /api/v1/tasks/:id", "GET /api/v1/tasks"}

\* C29: the handlers that read tasks (the status of one task, the list of
\* tasks) leave every field of every task of the table unchanged.
C29_ReadsWriteNothing ==
    [][ReadStep => tasks' = tasks]_vars


\* this step is Submit storing the task id
SubmitStep(id) == id \notin DOMAIN tasks /\ id \in DOMAIN tasks'

InQueue(q, id) == \E k \in DOMAIN q : q[k] = id

\* this step is the dispatch loop receiving from the queue
PopStep == workerPc = "select" /\ workerPc' = "acquire"

\* C25: Submit returns without waiting while the queue holds fewer tasks
\* than its capacity; on a full queue the caller waits, with its task already
\* in the table as queued, until the dispatch loop pops a task; a task whose
\* Submit waits can be canceled.
C25_SubmitBlocksWhenFull ==
    /\ [](Len(taskQueue) <= queueCap)
    /\ [](\A id \in BlockedSubmits :
             /\ Len(taskQueue) = queueCap
             /\ tasks[id].status \in {StatusQueued, StatusCanceled})
    /\ [][\A id \in Ids : SubmitStep(id) =>
             /\ tasks'[id].status = StatusQueued
             /\ (Len(taskQueue) < queueCap) =>
                    (InQueue(taskQueue', id) /\ id \notin BlockedSubmits')
             /\ (Len(taskQueue) = queueCap) =>
                    (~InQueue(taskQueue', id) /\ id \in BlockedSubmits')]_vars
    /\ [][\A id \in BlockedSubmits :
             /\ (id \notin BlockedSubmits') => PopStep
             /\ (PopStep /\ \A other \in BlockedSubmits : id <= other)
                    => InQueue(taskQueue', id)]_vars
    /\ [][\A id \in BlockedSubmits :
             (cancelPc = "queued" /\ cancelId = id /\ cancelPc' = "returned")
                 => /\ tasks'[id].status = StatusCanceled
                    /\ cancelRet'.err = NilErr
                    /\ id \in BlockedSubmits']_vars

C25_Witness ==
    \E id \in BlockedSubmits :
        /\ tasks[id].status = StatusCanceled
        /\ id \in queuedCancels
        /\ cancelRet = [id |-> id, observed |-> StatusQueued, err |-> NilErr]


\* the reference construction: the first token equal to the sentinel gives
\* way to the staged input path, every other token stays, the output path
\* comes last
RECURSIVE ReferenceArgs(_, _, _)
ReferenceArgs(args, inputPath, outputPath) ==
    IF args = << >> THEN <<outputPath>>
    ELSE IF IsSentinel(Head(args))
         THEN <<inputPath>> \o Tail(args) \o <<outputPath>>
         ELSE <<Head(args)>> \o ReferenceArgs(Tail(args), inputPath, outputPath)

\* the text of the sentinel occurs nowhere in the command
SentinelFree(args) ==
    \A i \in 1..Len(args) : \A k \in 1..Len(args[i]) :
        args[i][k] # "${INPUT_MEDIA}"

\* C26: for every command that SanitizeAndValidateArgs accepts, the argument
\* list the driver hands to the transcoder is the reference construction;
\* a command without the sentinel ends Run with an error and no argument
\* list, before the transcoder is started.
C26_ArgsMatchReference ==
    (call.op = "Run: args" /\ call.returned) =>
        /\ (SanitizeAndValidateArgs(call.args) = SanitizeOk) =>
               call.ret = [err |-> NilErr,
                           argv |-> ReferenceArgs(call.args, InputPathText,
                                                  OutputPathText)]
        /\ SentinelFree(call.args) =>
               (call.ret.err # NilErr /\ call.ret.argv = << >>)

C26_Witness ==
    /\ call.op = "Run: args" /\ call.returned
    /\ call.args = <<<<"-i">>, <<"${INPUT_MEDIA}">>, <<"${INPUT_MEDIA}">>>>
    /\ SanitizeAndValidateArgs(call.args) = SanitizeOk
    /\ call.ret.argv = <<<<"-i">>, InputPathText, <<"${INPUT_MEDIA}">>,
                         OutputPathText>>


\* this step is Run returning an error for task id
RunFailsStep(id) ==
    /\ exec[id].pc \in {"gate", "stage", "prepare", "exec"}
    /\ exec'[id].pc = "classify"
    /\ exec'[id].err # NilErr

\* when Run returns an error the task has no output path and no output file
RunErrorLeavesNoOutput ==
    [][\A id \in DOMAIN tasks :
          RunFailsStep(id) => /\ tasks'[id].outputPath = NoPath
                              /\ OutputFile(id) \notin files']_vars

\* a failed or canceled task has no output path
FailedHasNoOutputPath ==
    [](\A id \in DOMAIN tasks :
          tasks[id].status \in {StatusFailed, StatusCanceled}
              => tasks[id].outputPath = NoPath)

\* C27: whenever Run returns an error (gate, staging, command, exit code,
\* cancellation, deadline), the task's output path is empty and no output
\* file is left on disk; hence every failed or canceled task has an empty
\* output path.
C27_NoOutputOnError ==
    /\ RunErrorLeavesNoOutput
    /\ FailedHasNoOutputPath


\* the executor of task id has written its terminal status
MovedByExecutor(id) == exec[id].pc \in {"stamp", "done"} /\ id \in runInvoked

\* the time stamps that are set are in order
StampsOrdered ==
    [](\A id \in DOMAIN tasks :
          /\ tasks[id].startedAt # ZeroTime
                 => tasks[id].startedAt >= tasks[id].createdAt
          /\ tasks[id].completedAt # ZeroTime
                 => (tasks[id].startedAt # ZeroTime
                        /\ tasks[id].completedAt >= tasks[id].startedAt))

\* C28: startedAt, when set, is not before createdAt; completedAt, when
\* set, is not before startedAt; and every task that an executor has moved
\* to completed, failed or canceled has completedAt set.
C28_Timestamps ==
    /\ StampsOrdered
    /\ [](\A id \in DOMAIN tasks :
             (MovedByExecutor(id) /\ tasks[id].status \in Terminal)
                 => tasks[id].completedAt # ZeroTime)


\* the extension is one word of letters and digits
Alphanumeric(ext) ==
    Len(ext) = 1 /\ ext[1] \notin {Dot, DotDot, Empty}

\* the output path of every task lies directly in the temp root
OutputInTempRoot ==
    \A id \in DOMAIN tasks :
        tasks[id].outputPath # NoPath => DirectChild(tasks[id].outputPath)

\* C30: every task admitted through POST /api/v1/tasks has an extension of
\* letters and digits only, so its output path
\* {tempRoot}/{taskId}_output.{outputExt} is a direct child of the temp root.
C30_OutputExtIsPlain ==
    /\ \A id \in DOMAIN tasks : Alphanumeric(tasks[id].outputExt)
    /\ OutputInTempRoot


\* Run has returned for task id
RunReturned(id) ==
    id \in runInvoked /\ exec[id].pc \in {"classify", "stamp", "done"}

\* Run has returned the error of the stager
StagingFailed(id) ==
    /\ RunReturned(id)
    /\ exec[id].err # NilErr
    /\ Head(exec[id].err) = "failed to prepare input"

\* after a run whose staging succeeded no input file of the task is left
StagedInputReleased ==
    \A id \in DOMAIN tasks :
        (RunReturned(id) /\ ~StagingFailed(id)) => InputTmp(id) \notin files

\* C31: when staging fails after the temp file was created (download error,
\* upstream status, input too large, data: scheme, unreadable local path),
\* no input file of the task is left in the temp root once Run has returned.
C31_StagerReleasesTempFile ==
    \A id \in DOMAIN tasks :
        StagingFailed(id) => InputTmp(id) \notin files


\* the executors that were started and have not returned
RunningExecutors == {id \in Ids : exec[id].pc \notin {"none", "done"}}

\* this step is the executor of task id returning
ExecutorReturnStep(id) == exec[id].pc # "done" /\ exec'[id].pc = "done"

\* C32: with MaxConcurrency >= 1, no shutdown, a driver whose Run always
\* returns and fair scheduling, every submitted task eventually has a
\* terminal status; every executor releases exactly one slot when it returns,
\* on the early return for a task canceled while queued too, and nothing else
\* releases one; the slots held are those of the running executors plus at
\* most one held by the dispatch loop.
C32_TerminatesAndReleases ==
    /\ \A id \in Ids :
          (id \in DOMAIN tasks)
              ~> (id \in DOMAIN tasks /\ tasks[id].status \in Terminal)
    /\ [](sem - Cardinality(RunningExecutors) \in {0, 1})
    /\ [][/\ \A id \in Ids : ExecutorReturnStep(id) => sem' = sem - 1
          /\ sem' < sem => \E id \in Ids : ExecutorReturnStep(id)]_vars

C32_Witness ==
    \E id \in queuedCancels : \E other \in DOMAIN tasks :
        /\ exec[id].pc = "done" /\ id \notin runInvoked
        /\ tasks[id].status = StatusCanceled
        /\ exec[other].pc = "done" /\ other \in runInvoked
        /\ tasks[other].status \in Terminal
        /\ sem = 0

====
